---- MODULE Spec2Model ----
(***************************************************************************)
(* Model of link_validation_script.py (class LinkValidator).               *)
(*                                                                         *)
(* A Python str is a sequence of one-character strings.  The documentation *)
(* tree is a sequence of directory entries in the order the directory walk *)
(* yields them; each entry carries its path relative to docs_root, whether *)
(* it is a regular file, and the link occurrences of its text in document  *)
(* order (what the three regular expressions of extract_links_from_file    *)
(* match, each with its pattern kind and its line).  Optional values       *)
(* (None / a str) are sequences of length 0 / 1.                           *)
(***************************************************************************)
EXTENDS Integers, Sequences, FiniteSets, TLC

(***************************************************************************)
(* Bounds of the model.                                                    *)
(***************************************************************************)
MaxFiles == 2
MaxRuns == 2

(***************************************************************************)
(* Characters.  Chars lists the characters in code-point order, Ord is the *)
(* position in that order (order-isomorphic to the code point).            *)
(***************************************************************************)
Punct == << "#", ".", "/", ":", "?" >>

Upper ==
  << "A", "B", "C", "D", "E", "F", "G", "H", "I", "J", "K", "L", "M",
     "N", "O", "P", "Q", "R", "S", "T", "U", "V", "W", "X", "Y", "Z" >>

Lower ==
  << "a", "b", "c", "d", "e", "f", "g", "h", "i", "j", "k", "l", "m",
     "n", "o", "p", "q", "r", "s", "t", "u", "v", "w", "x", "y", "z" >>

Chars == Punct \o Upper \o Lower

Ord(c) == CHOOSE i \in 1..Len(Chars) : Chars[i] = c

\* str.lower() on one character
lower_char(c) ==
  IF \E i \in 1..Len(Upper) : Upper[i] = c
    THEN Lower[CHOOSE i \in 1..Len(Upper) : Upper[i] = c]
    ELSE c

lower(s) == [i \in 1..Len(s) |-> lower_char(s[i])]

startswith(s, p) == Len(s) >= Len(p) /\ SubSeq(s, 1, Len(p)) = p

endswith(s, p) ==
  Len(s) >= Len(p) /\ SubSeq(s, Len(s) - Len(p) + 1, Len(s)) = p

\* s.split(c)[0]: the part of s before the first occurrence of c
split_first(s, c) ==
  IF \E i \in 1..Len(s) : s[i] = c
    THEN SubSeq(s, 1, (CHOOSE i \in 1..Len(s) :
                         s[i] = c /\ \A j \in 1..(i-1) : s[j] # c) - 1)
    ELSE s

\* s.lstrip(c): s without all its leading occurrences of c
RECURSIVE lstrip(_, _)
lstrip(s, c) ==
  IF s # <<>> /\ Head(s) = c THEN lstrip(Tail(s), c) ELSE s

\* Python's str ordering: lexicographic by code point
RECURSIVE StrLess(_, _)
StrLess(a, b) ==
  IF b = <<>> THEN FALSE
  ELSE IF a = <<>> THEN TRUE
  ELSE IF Head(a) = Head(b) THEN StrLess(Tail(a), Tail(b))
  ELSE Ord(Head(a)) < Ord(Head(b))

None == <<>>
Some(x) == <<x>>

(***************************************************************************)
(* pathlib: PurePath.name, PurePath.suffix, PurePath.with_suffix('')       *)
(***************************************************************************)
SLASH == "/"
DOT == "."

LastSlash(p) ==
  IF \E i \in 1..Len(p) : p[i] = SLASH
    THEN CHOOSE i \in 1..Len(p) :
           p[i] = SLASH /\ \A j \in (i+1)..Len(p) : p[j] # SLASH
    ELSE 0

path_name(p) == SubSeq(p, LastSlash(p) + 1, Len(p))

\* index in name of the dot that starts the suffix, 0 when there is none:
\* i = name.rfind('.'); the suffix is name[i:] when 0 < i < len(name) - 1
SuffixDot(name) ==
  LET dots == {i \in 1..Len(name) : name[i] = DOT}
  IN
  IF dots = {} THEN 0
  ELSE LET i == CHOOSE k \in dots : \A j \in dots : j <= k
       IN  IF 1 < i /\ i < Len(name) THEN i ELSE 0

with_suffix_empty(p) ==
  LET d == SuffixDot(path_name(p))
  IN  IF d = 0 THEN p ELSE SubSeq(p, 1, LastSlash(p) + d - 1)

(***************************************************************************)
(* String literals of the script.                                          *)
(***************************************************************************)
EXT_MDX == << ".", "m", "d", "x" >>
EXT_MD == << ".", "m", "d" >>
EXT_JSON == << ".", "j", "s", "o", "n" >>
EXT_PNG == << ".", "p", "n", "g" >>
EXT_JPG == << ".", "j", "p", "g" >>
EXT_GIF == << ".", "g", "i", "f" >>
EXT_SVG == << ".", "s", "v", "g" >>
DOT_SLASH == << ".", "/" >>
DOTDOT_SLASH == << ".", ".", "/" >>
HTTP == << "h", "t", "t", "p", ":", "/", "/" >>
HTTPS == << "h", "t", "t", "p", "s", ":", "/", "/" >>
MAILTO == << "m", "a", "i", "l", "t", "o", ":" >>
TEL == << "t", "e", "l", ":" >>
FTP == << "f", "t", "p", ":" >>

KnownExtensions ==
  {EXT_MDX, EXT_MD, EXT_JSON, EXT_PNG, EXT_JPG, EXT_GIF, EXT_SVG}

(***************************************************************************)
(* LinkValidator.is_internal_link                                          *)
(***************************************************************************)
is_internal_link_http_only(url) ==
  ~ (startswith(url, HTTP) \/ startswith(url, HTTPS))

is_internal_link(url) ==
  IF startswith(url, HTTP) \/ startswith(url, HTTPS) THEN FALSE
  ELSE IF startswith(url, MAILTO) \/ startswith(url, TEL)
            \/ startswith(url, FTP) THEN FALSE
  ELSE TRUE

(***************************************************************************)
(* LinkValidator.normalize_internal_path                                   *)
(***************************************************************************)
strip_fragment_query(url) == split_first(split_first(url, "#"), "?")

\* lines 110-111: append .mdx unless a recognised extension is present
add_default_extension(u) ==
  IF \E e \in KnownExtensions : endswith(u, e) THEN u ELSE u \o EXT_MDX

normalize_internal_path(url) ==
  LET u == strip_fragment_query(url)
  IN  IF startswith(u, DOT_SLASH)
        THEN add_default_extension(SubSeq(u, 3, Len(u)))
      ELSE IF startswith(u, DOTDOT_SLASH)
        THEN u
      ELSE add_default_extension(u)

(***************************************************************************)
(* difflib.SequenceMatcher (isjunk = None; the autojunk heuristic applies  *)
(* only to a second sequence of 200 or more elements, beyond any path      *)
(* here).  Indices are 0-based and ranges half-open, as in difflib.        *)
(***************************************************************************)
\* length of the common run of a[i:ahi] and b[j:bhi]
RECURSIVE CommonLen(_, _, _, _, _, _)
CommonLen(a, b, i, j, ahi, bhi) ==
  IF i < ahi /\ j < bhi /\ a[i + 1] = b[j + 1]
    THEN 1 + CommonLen(a, b, i + 1, j + 1, ahi, bhi)
    ELSE 0

\* the element of a one-element set: The({F(x) : x \in {e}}) is F(e) with
\* e evaluated once
The(S) == CHOOSE v \in S : TRUE

\* the earliest of the longest runs in `runs`, a set of <<i, j, k>>
earliest_longest(runs) ==
  CHOOSE p \in runs :
    \A r \in runs :
      \/ r[3] < p[3]
      \/ /\ r[3] = p[3]
         /\ \/ p[1] < r[1]
            \/ p[1] = r[1] /\ p[2] <= r[2]

\* <<i, j, k>>: the longest matching block of a[alo:ahi] and b[blo:bhi],
\* the one starting earliest in a and, of those, earliest in b
find_longest_match(a, b, alo, ahi, blo, bhi) ==
  The({ IF runs = {} THEN <<alo, blo, 0>> ELSE earliest_longest(runs) :
          runs \in { { <<p[1], p[2], CommonLen(a, b, p[1], p[2], ahi, bhi)>> :
                         p \in {q \in (alo..(ahi - 1)) \X (blo..(bhi - 1)) :
                                  a[q[1] + 1] = b[q[2] + 1]} } } })

\* total size of the blocks of get_matching_blocks on a[alo:ahi], b[blo:bhi]:
\* the longest block <<i, j, k>>, then the blocks to its left and right
RECURSIVE matching_size(_, _, _, _, _, _)
matching_size(a, b, alo, ahi, blo, bhi) ==
  The({ IF m[3] = 0 THEN 0
        ELSE m[3]
             + (IF alo < m[1] /\ blo < m[2]
                  THEN matching_size(a, b, alo, m[1], blo, m[2]) ELSE 0)
             + (IF m[1] + m[3] < ahi /\ m[2] + m[3] < bhi
                  THEN matching_size(a, b, m[1] + m[3], ahi, m[2] + m[3], bhi)
                  ELSE 0) :
          m \in {find_longest_match(a, b, alo, ahi, blo, bhi)} })

\* a score is the fraction <<num, den>>; _calculate_ratio gives 1.0 for
\* two empty sequences
calculate_ratio(matches, length) ==
  IF length > 0 THEN <<2 * matches, length>> ELSE <<1, 1>>

ratio(a, b) ==
  calculate_ratio(matching_size(a, b, 0, Len(a), 0, Len(b)), Len(a) + Len(b))

CountOf(s, c) == Cardinality({i \in 1..Len(s) : s[i] = c})

\* upper bound on ratio(): size of the multiset intersection; an element
\* of b counts while occurrences of it in a are still available
quick_ratio(a, b) ==
  calculate_ratio(
    Cardinality({i \in 1..Len(b) :
                   CountOf(SubSeq(b, 1, i), b[i]) <= CountOf(a, b[i])}),
    Len(a) + Len(b))

\* upper bound on ratio(): from the lengths only
real_quick_ratio(a, b) ==
  calculate_ratio(IF Len(a) < Len(b) THEN Len(a) ELSE Len(b), Len(a) + Len(b))

FracGeq(x, y) == x[1] * y[2] >= y[1] * x[2]
FracLess(x, y) == x[1] * y[2] < y[1] * x[2]

\* cutoff=0.6 and n=3 in the call of find_closest_match
CutoffNum == 6
CutoffDen == 10
TopN == 3

(***************************************************************************)
(* difflib.get_close_matches(word, possibilities, n, cutoff).  The list of *)
(* possibilities is given as a bag (element |-> number of occurrences):    *)
(* the result, the n best of the (score, x) pairs in descending order,     *)
(* does not depend on the order of the list.  The matcher is set up with   *)
(* seq1 = x and seq2 = word.                                               *)
(***************************************************************************)
close_enough(x, word, cutoff) ==
  /\ FracGeq(real_quick_ratio(x, word), cutoff)
  /\ FracGeq(quick_ratio(x, word), cutoff)
  /\ FracGeq(ratio(x, word), cutoff)

\* (score, x) tuple ordering of Python
PairLess_reversed(p, q) ==
  \/ FracLess(q[1], p[1])
  \/ /\ ~ FracLess(p[1], q[1])
     /\ StrLess(q[2], p[2])

PairLess(p, q) ==
  \/ FracLess(p[1], q[1])
  \/ /\ ~ FracLess(q[1], p[1])
     /\ StrLess(p[2], q[2])

Repeat(x, k) == [i \in 1..k |-> x]

\* heapq.nlargest(n, result), then the scores stripped; `scored` holds the
\* distinct (score, x) pairs of result
RECURSIVE nlargest(_, _, _)
nlargest(n, scored, bag) ==
  IF n <= 0 \/ scored = {} THEN <<>>
  ELSE The({ Repeat(m[2], IF bag[m[2]] < n THEN bag[m[2]] ELSE n)
             \o nlargest(n - bag[m[2]], scored \ {m}, bag) :
               m \in {p \in scored : \A q \in scored : ~ PairLess(p, q)} })

get_close_matches(word, bag, n, cutoff) ==
  The({ nlargest(n, scored, bag) :
          scored \in { { <<ratio(x, word), x>> :
                           x \in {y \in DOMAIN bag :
                                    close_enough(y, word, cutoff)} } } })

(***************************************************************************)
(* LinkValidator.find_closest_match.  all_files is a Python set of str:    *)
(* its iteration order depends on the per-process hash seed.  The order    *)
(* matters only in the loop that restores the original case, which returns *)
(* the first element in iteration order whose lower() is the best match;   *)
(* `first` is the set of the elements that come first among those with the *)
(* same lower().                                                           *)
(***************************************************************************)
lowered_bag(files) ==
  [x \in {lower(f) : f \in files} |->
     Cardinality({f \in files : lower(f) = x})]

find_closest_match(target, files, first) ==
  The({ IF best_matches # <<>>
          THEN Some(CHOOSE f \in first : lower(f) = best_matches[1])
          ELSE None :
          best_matches \in
            { get_close_matches(target_normalized, lowered_bag(files),
                                TopN, <<CutoffNum, CutoffDen>>) :
                target_normalized \in {lower(target)} } })

(***************************************************************************)
(* LinkValidator.validate_internal_link                                    *)
(***************************************************************************)
possible_paths_no_lstrip(normalized) ==
  << normalized,
     normalized \o EXT_MDX,
     normalized \o EXT_MD >>

possible_paths(normalized) ==
  << normalized,
     lstrip(normalized, SLASH),
     <<SLASH>> \o lstrip(normalized, SLASH),
     normalized \o EXT_MDX,
     normalized \o EXT_MD >>

\* the loop of lines 146-152: the first candidate present in the index
RECURSIVE first_present(_, _)
first_present(paths, files) ==
  IF paths = <<>> THEN None
  ELSE IF Head(paths) \in files THEN Some(Head(paths))
  ELSE first_present(Tail(paths), files)

validate_internal_link(url, files, first) ==
  The({ IF first_present(possible_paths(normalized), files) # None
          THEN [valid |-> TRUE,
                target |-> first_present(possible_paths(normalized), files)[1],
                suggestion |-> None]
          ELSE [valid |-> FALSE, target |-> normalized,
                suggestion |-> find_closest_match(normalized, files, first)] :
          normalized \in {normalize_internal_path(url)} })

(***************************************************************************)
(* Path.glob('**/*.mdx'), Path.glob('**/*.md'): the entries whose name     *)
(* ends with the extension, in the order of the directory walk.            *)
(***************************************************************************)
patterns == << EXT_MDX, EXT_MD >>

RECURSIVE glob(_, _)
glob(entries, ext) ==
  IF entries = <<>> THEN <<>>
  ELSE IF endswith(path_name(Head(entries).path), ext)
         THEN <<Head(entries)>> \o glob(Tail(entries), ext)
         ELSE glob(Tail(entries), ext)

(***************************************************************************)
(* LinkValidator._build_file_index                                         *)
(***************************************************************************)
index_variants_with_name(relative_path) ==
  { relative_path,
    with_suffix_empty(relative_path),
    <<SLASH>> \o relative_path,
    <<SLASH>> \o with_suffix_empty(relative_path),
    path_name(relative_path) }

index_variants(relative_path) ==
  { relative_path,
    with_suffix_empty(relative_path),
    <<SLASH>> \o relative_path,
    <<SLASH>> \o with_suffix_empty(relative_path) }

Range(s) == {s[i] : i \in 1..Len(s)}

globbed(entries) ==
  UNION { Range(glob(entries, patterns[p])) : p \in 1..Len(patterns) }

build_file_index(entries) ==
  UNION { index_variants(e.path) : e \in {g \in globbed(entries) : g.is_file} }

\* the sets `first` that an iteration order of the set `files` can give:
\* exactly one element of each class of equal lower()
FirstChoices(files) ==
  UNION
    { UNION
        { { {p[2] : p \in (keyed \ amb) \cup Q} :
              Q \in { R \in SUBSET amb :
                        \A p \in amb :
                          Cardinality({r \in R : r[1] = p[1]}) = 1 } } :
            amb \in { {p \in keyed :
                         \E q \in keyed : q # p /\ q[1] = p[1]} } } :
        keyed \in { {<<lower(f), f>> : f \in files} } }

(***************************************************************************)
(* The documentation trees of the model: every selection of at most        *)
(* MaxFiles of the entries below, in this directory order.                 *)
(***************************************************************************)
P_INTRO == << "g", "u", "i", "d", "e", "/", "i", "n", "t", "r", "o", ".", "m", "d", "x" >>
P_A_LOWER == << "a", ".", "m", "d" >>
P_A_UPPER == << "A", ".", "m", "d" >>
P_PIC == << "p", "i", "c", ".", "p", "n", "g" >>
P_DIR == << "d", ".", "m", "d" >>

U_INTOR == << "/", "g", "u", "i", "d", "e", "/", "i", "n", "t", "o", "r" >>
U_HTTPS_PIC == << "h", "t", "t", "p", "s", ":", "/", "/", "e", "/", "p", ".", "p", "n", "g" >>
U_PARENT_A == << ".", ".", "/", "a", ".", "m", "d" >>
U_A_NOEXT == << "a" >>
U_DOT_A_FRAGMENT == << ".", "/", "a", ".", "m", "d", "#", "t", "o", "p", "?", "x" >>
U_TEL == << "t", "e", "l", ":", "x" >>
U_HTTP_UPPER == << "H", "T", "T", "P", ":", "/", "/", "x" >>
U_SLASHES_A == << "/", "/", "A", ".", "m", "d" >>
U_MAILTO == << "m", "a", "i", "l", "t", "o", ":", "x" >>

Occ(type, text, url, line) ==
  [type |-> type, text |-> text, url |-> url, line |-> line]

Entries ==
  << [path |-> P_INTRO, is_file |-> TRUE,
      content |-> << Occ("markdown", "bad", U_INTOR, 1),
                     Occ("src", "", U_HTTPS_PIC, 2) >>],
     [path |-> P_A_LOWER, is_file |-> TRUE,
      content |-> << Occ("markdown", "up", U_PARENT_A, 1),
                     Occ("href", "", U_A_NOEXT, 2),
                     Occ("markdown", "top", U_DOT_A_FRAGMENT, 2),
                     Occ("markdown", "call", U_TEL, 3) >>],
     [path |-> P_A_UPPER, is_file |-> TRUE,
      content |-> << Occ("href", "", U_MAILTO, 1),
                     Occ("markdown", "caps", U_HTTP_UPPER, 1),
                     Occ("markdown", "abs", U_SLASHES_A, 2) >>],
     [path |-> P_PIC, is_file |-> TRUE, content |-> <<>>],
     [path |-> P_DIR, is_file |-> FALSE, content |-> <<>>] >>

RECURSIVE Select(_, _)
Select(entries, keep) ==
  IF entries = <<>> THEN <<>>
  ELSE IF Head(entries).path \in keep
         THEN <<Head(entries)>> \o Select(Tail(entries), keep)
         ELSE Select(Tail(entries), keep)

Trees ==
  { Select(Entries, {e.path : e \in K}) :
      K \in {K \in SUBSET Range(Entries) : Cardinality(K) <= MaxFiles} }

(***************************************************************************)
(* LinkValidator.extract_links_from_file: a failed read gives no links;    *)
(* otherwise the matches of the markdown pattern, then of the href         *)
(* pattern, then of the src pattern, each in document order.  raw_match,   *)
(* the matched text, is determined by the other fields and is left out.    *)
(***************************************************************************)
link_patterns == << "markdown", "href", "src" >>

RECURSIVE matches_of(_, _, _)
matches_of(content, type, file) ==
  IF content = <<>> THEN <<>>
  ELSE (IF Head(content).type = type
          THEN << [file |-> file, line |-> Head(content).line,
                   type |-> type, text |-> Head(content).text,
                   url |-> Head(content).url] >>
          ELSE <<>>)
       \o matches_of(Tail(content), type, file)

RECURSIVE scan_patterns(_, _, _)
scan_patterns(content, types, file) ==
  IF types = <<>> THEN <<>>
  ELSE matches_of(content, Head(types), file)
       \o scan_patterns(content, Tail(types), file)

extract_links_ignoring_read_error(entry, failing) ==
  scan_patterns(entry.content, link_patterns, entry.path)

extract_links_from_file(entry, failing) ==
  IF entry.path \in failing
    THEN <<>>
    ELSE scan_patterns(entry.content, link_patterns, entry.path)

(***************************************************************************)
(* State.                                                                  *)
(***************************************************************************)
VARIABLES
  tree,            \* the entries under docs_root, in directory order
  unreadable,      \* paths whose read_text raises
  all_files,       \* self.all_files
  iter_first,      \* iteration order of all_files in this process
  links_found,     \* self.links_found
  broken_links,    \* self.broken_links
  external_links,  \* self.external_links
  fixes_applied,   \* self.fixes_applied
  pat,             \* process_all_files: index of the current pattern
  fidx,            \* process_all_files: entries of the pattern consumed
  pending,         \* process_all_files: links of the current file to go
  validated,       \* calls of validate_internal_link so far: url, result
  pc,              \* "process", "done"
  report,          \* the report of this run, once generated
  run,             \* number of the current run of the script
  prev_report      \* the report of the previous run

vars ==
  << tree, unreadable, all_files, iter_first, links_found, broken_links,
     external_links, fixes_applied, pat, fidx, pending, validated, pc,
     report, run, prev_report >>

current_glob == glob(tree, patterns[pat])

\* LinkValidator.__init__
Construct ==
  /\ all_files' = build_file_index(tree)
  /\ iter_first' \in FirstChoices(build_file_index(tree))
  /\ links_found' = <<>>
  /\ broken_links' = <<>>
  /\ external_links' = <<>>
  /\ fixes_applied' = <<>>

Init ==
  /\ tree \in Trees
  /\ unreadable \in SUBSET {e.path : e \in {g \in globbed(tree) : g.is_file}}
  /\ all_files = build_file_index(tree)
  /\ iter_first \in FirstChoices(all_files)
  /\ links_found = <<>>
  /\ broken_links = <<>>
  /\ external_links = <<>>
  /\ fixes_applied = <<>>
  /\ pat = 1
  /\ fidx = 0
  /\ pending = <<>>
  /\ validated = <<>>
  /\ pc = "process"
  /\ report = None
  /\ run = 1
  /\ prev_report = None

(***************************************************************************)
(* LinkValidator.process_all_files, one step per loop iteration.           *)
(***************************************************************************)
\* lines 166-168: the next entry of the pattern is a file; read it
OpenFile ==
  /\ pc = "process"
  /\ pending = <<>>
  /\ fidx < Len(current_glob)
  /\ current_glob[fidx + 1].is_file
  /\ fidx' = fidx + 1
  /\ pending' = extract_links_from_file(current_glob[fidx + 1], unreadable)
  /\ UNCHANGED << tree, unreadable, all_files, iter_first, links_found,
                  broken_links, external_links, fixes_applied, pat,
                  validated, pc, report, run, prev_report >>

\* line 167: the next entry of the pattern is not a file
SkipNonFile ==
  /\ pc = "process"
  /\ pending = <<>>
  /\ fidx < Len(current_glob)
  /\ ~ current_glob[fidx + 1].is_file
  /\ fidx' = fidx + 1
  /\ UNCHANGED << tree, unreadable, all_files, iter_first, links_found,
                  broken_links, external_links, fixes_applied, pat, pending,
                  validated, pc, report, run, prev_report >>

\* line 165: the pattern is exhausted, go on with the next one
NextPattern ==
  /\ pc = "process"
  /\ pending = <<>>
  /\ fidx = Len(current_glob)
  /\ pat < Len(patterns)
  /\ pat' = pat + 1
  /\ fidx' = 0
  /\ UNCHANGED << tree, unreadable, all_files, iter_first, links_found,
                  broken_links, external_links, fixes_applied, pending,
                  validated, pc, report, run, prev_report >>

\* lines 176-180
broken_record_always_high(link, validation) ==
  [link |-> link, validation |-> validation, confidence |-> "high"]

broken_record(link, validation) ==
  [link |-> link, validation |-> validation,
   confidence |-> IF validation.suggestion # None
                       /\ validation.suggestion[1] # <<>>
                    THEN "high" ELSE "low"]

\* lines 174-180: an internal link is validated and recorded when broken
record_internal(link, validation) ==
  /\ validated' = Append(validated, [url |-> link.url, result |-> validation])
  /\ broken_links' =
       IF ~ validation.valid
         THEN Append(broken_links, broken_record(link, validation))
         ELSE broken_links
  /\ UNCHANGED external_links

\* line 182
record_external_dropped(link) ==
  UNCHANGED << external_links, validated, broken_links >>

record_external(link) ==
  /\ external_links' = Append(external_links, link)
  /\ UNCHANGED << validated, broken_links >>

\* lines 170-182: the body of the loop over the links of a file
ProcessLink ==
  /\ pc = "process"
  /\ pending # <<>>
  /\ links_found' = Append(links_found, Head(pending))
  /\ pending' = Tail(pending)
  /\ IF is_internal_link(Head(pending).url)
       THEN \E validation \in
                 {validate_internal_link(Head(pending).url, all_files,
                                         iter_first)} :
              record_internal(Head(pending), validation)
       ELSE record_external(Head(pending))
  /\ UNCHANGED << tree, unreadable, all_files, iter_first, fixes_applied,
                  pat, fidx, pc, report, run, prev_report >>

(***************************************************************************)
(* LinkValidator.generate_report, called when process_all_files returns.   *)
(***************************************************************************)
RECURSIVE count_internal(_)
count_internal(links) ==
  IF links = <<>> THEN 0
  ELSE (IF is_internal_link(Head(links).url) THEN 1 ELSE 0)
       + count_internal(Tail(links))

generate_report ==
  [summary |->
     [total_files_scanned |->
        Len(glob(tree, EXT_MDX)) + Len(glob(tree, EXT_MD)),
      total_links_found |-> Len(links_found),
      internal_links |-> count_internal(links_found),
      external_links |-> Len(external_links),
      broken_internal_links |-> Len(broken_links),
      fixes_applied |-> Len(fixes_applied)],
   broken_links |-> broken_links,
   external_links |-> external_links,
   fixes_applied |-> fixes_applied,
   all_links |-> links_found]

GenerateReport ==
  /\ pc = "process"
  /\ pending = <<>>
  /\ fidx = Len(current_glob)
  /\ pat = Len(patterns)
  /\ report' = Some(generate_report)
  /\ pc' = "done"
  /\ UNCHANGED << tree, unreadable, all_files, iter_first, links_found,
                  broken_links, external_links, fixes_applied, pat, fidx,
                  pending, validated, run, prev_report >>

(***************************************************************************)
(* The script is run again, in a new process, over the unchanged tree:     *)
(* lines 202-205.                                                          *)
(***************************************************************************)
RunAgain ==
  /\ pc = "done"
  /\ run < MaxRuns
  /\ run' = run + 1
  /\ prev_report' = report
  /\ report' = None
  /\ Construct
  /\ pat' = 1
  /\ fidx' = 0
  /\ pending' = <<>>
  /\ validated' = <<>>
  /\ pc' = "process"
  /\ UNCHANGED << tree, unreadable >>

Next ==
  \/ OpenFile
  \/ SkipNonFile
  \/ NextPattern
  \/ ProcessLink
  \/ GenerateReport
  \/ RunAgain

Spec == Init /\ [][Next]_vars

FairSpec == Spec /\ WF_vars(Next)

(***************************************************************************)
(* Properties.                                                             *)
(***************************************************************************)
T_INTOR_MDX == << "/", "g", "u", "i", "d", "e", "/", "i", "n", "t", "o", "r", ".", "m", "d", "x" >>
S_INTRO == << "/", "g", "u", "i", "d", "e", "/", "i", "n", "t", "r", "o" >>
S_INTRO_MDX == << "/", "g", "u", "i", "d", "e", "/", "i", "n", "t", "r", "o", ".", "m", "d", "x" >>

ExternalPrefixes == {HTTP, HTTPS, MAILTO, TEL, FTP}
BeginsExternal(url) == \E p \in ExternalPrefixes : startswith(url, p)

RECURSIVE InternalOnes(_)
InternalOnes(links) ==
  IF links = <<>> THEN <<>>
  ELSE (IF BeginsExternal(Head(links).url) THEN <<>> ELSE <<Head(links)>>)
       \o InternalOnes(Tail(links))

RECURSIVE ExternalOnes(_)
ExternalOnes(links) ==
  IF links = <<>> THEN <<>>
  ELSE (IF BeginsExternal(Head(links).url) THEN <<Head(links)>> ELSE <<>>)
       \o ExternalOnes(Tail(links))

\* the documentation files of the tree and the four link styles of a path
DocFiles ==
  {e \in Range(tree) :
     e.is_file /\ (endswith(e.path, EXT_MD) \/ endswith(e.path, EXT_MDX))}

FourStyles(path) ==
  { path, with_suffix_empty(path),
    <<SLASH>> \o path, <<SLASH>> \o with_suffix_empty(path) }

FiveCandidates(n) ==
  { n, lstrip(n, SLASH), <<SLASH>> \o lstrip(n, SLASH),
    n \o EXT_MDX, n \o EXT_MD }

\* C1: a link is external exactly when its URL begins with http://,
\* https://, mailto:, tel: or ftp:; the validator is invoked on the internal
\* links only, every external link is in external_links and none is in
\* broken_links, and every broken record has an internal URL.
C1_ExternalNeverValidated ==
  /\ external_links = ExternalOnes(links_found)
  /\ [i \in 1..Len(validated) |-> validated[i].url]
       = [i \in 1..Len(InternalOnes(links_found)) |->
            InternalOnes(links_found)[i].url]
  /\ \A v \in Range(validated) : ~ BeginsExternal(v.url)
  /\ \A b \in Range(broken_links) :
       /\ ~ BeginsExternal(b.link.url)
       /\ b.link \notin Range(external_links)

C1_Witness ==
  /\ \E l \in Range(external_links) : startswith(l.url, MAILTO)
  /\ \E v \in Range(validated) : v.url = U_HTTP_UPPER

\* C2: validate_internal_link answers valid exactly when one of the five
\* candidates of the normalized path is in the index, and a normalized path
\* that is itself in the index is valid with no suggestion.
C2_ValidIffCandidateIndexed ==
  \A v \in Range(validated) :
    LET n == normalize_internal_path(v.url)
    IN  /\ v.result.valid <=> (\E c \in FiveCandidates(n) : c \in all_files)
        /\ v.result.valid => v.result.suggestion = None
        /\ n \in all_files => v.result.valid

C2_Witness ==
  /\ \E v \in Range(validated) : v.url = U_SLASHES_A /\ v.result.valid
  /\ \E v \in Range(validated) : ~ v.result.valid

\* C3: a link written in one of the four styles the index stores for a
\* documentation file is validated as valid.
C3_EveryIndexedStyleValid ==
  \A v \in Range(validated) :
    (\E e \in DocFiles : v.url \in FourStyles(e.path)) => v.result.valid

\* C4: a link whose path, fragment and query stripped, starts with ../ is
\* normalized to that path unchanged and is not recorded in broken_links.
C4_ParentRelativeNotBroken ==
  \A l \in Range(links_found) :
    (~ BeginsExternal(l.url)
       /\ startswith(strip_fragment_query(l.url), DOTDOT_SLASH))
    => /\ normalize_internal_path(l.url) = strip_fragment_query(l.url)
       /\ \A b \in Range(broken_links) : b.link # l

\* C5: every broken record has valid = false, confidence high exactly when
\* a suggestion is present and low exactly when it is absent; a suggestion
\* is present only when some indexed path reaches similarity 0.6 (of the
\* case-folded strings) to the normalized target.
C5_ConfidenceFollowsSuggestion ==
  \A b \in Range(broken_links) :
    /\ b.validation.valid = FALSE
    /\ b.confidence \in {"high", "low"}
    /\ b.confidence = "high" <=> b.validation.suggestion # None
    /\ \/ b.validation.suggestion = None /\ b.confidence = "low"
       \/ \E f \in all_files :
            FracGeq(ratio(lower(f), lower(b.validation.target)),
                    <<CutoffNum, CutoffDen>>)

C5_Witness ==
  /\ \E b \in Range(broken_links) :
       b.validation.suggestion = None /\ b.confidence = "low"
  /\ \E b \in Range(broken_links) :
       b.validation.suggestion # None /\ b.confidence = "high"

\* the links of the readable documentation files, in the order of the scan
RECURSIVE ReadableLinks(_)
ReadableLinks(entries) ==
  IF entries = <<>> THEN <<>>
  ELSE (IF Head(entries).is_file /\ Head(entries).path \notin unreadable
          THEN scan_patterns(Head(entries).content, link_patterns,
                             Head(entries).path)
          ELSE <<>>)
       \o ReadableLinks(Tail(entries))

ScanOrder == glob(tree, EXT_MDX) \o glob(tree, EXT_MD)

RECURSIVE BrokenOnes(_)
BrokenOnes(links) ==
  IF links = <<>> THEN <<>>
  ELSE (IF \E c \in FiveCandidates(normalize_internal_path(Head(links).url)) :
             c \in all_files
          THEN <<>> ELSE <<Head(links)>>)
       \o BrokenOnes(Tail(links))

C6_ReportOfReadableFiles ==
  pc = "done" =>
    /\ report # None
    /\ report[1].all_links = ReadableLinks(ScanOrder)
    /\ report[1].external_links = ExternalOnes(ReadableLinks(ScanOrder))
    /\ [i \in 1..Len(report[1].broken_links) |->
          report[1].broken_links[i].link]
         = BrokenOnes(InternalOnes(ReadableLinks(ScanOrder)))
    /\ \A l \in Range(report[1].all_links) \cup Range(report[1].external_links)
              \cup {b.link : b \in Range(report[1].broken_links)} :
         l.file \notin unreadable

\* C6: whatever files fail to be read, the run completes with a report; an
\* unreadable file contributes no entry to all_links, external_links or
\* broken_links, and the links of the readable files are extracted,
\* classified and validated as without the failure.
C6_ReadFailuresAreLocal ==
  /\ (pc = "process") ~> (pc = "done")
  /\ [] C6_ReportOfReadableFiles

C6_Witness ==
  /\ pc = "done"
  /\ \E e \in Range(tree) : e.path \in unreadable /\ e.content # <<>>
  /\ report[1].all_links # <<>>
  /\ report[1].broken_links # <<>>

\* C7: two runs over the unchanged tree give identical reports.
C7_RunsGiveSameReport ==
  (pc = "done" /\ prev_report # None) => report = prev_report

\* C8 as stated: with the index of the single file guide/intro.mdx, the
\* link /guide/intor is normalized to /guide/intor.mdx, fails the lookup and
\* is recorded with suggestion /guide/intro and confidence high.
C8_SuggestionWithoutExtension ==
  all_files = FourStyles(P_INTRO) =>
    \A b \in Range(broken_links) :
      b.link.url = U_INTOR =>
        /\ b.validation.target = T_INTOR_MDX
        /\ b.validation.suggestion = Some(S_INTRO)
        /\ b.confidence = "high"

\* C8 amended: with the index of the single file guide/intro.mdx, the link
\* /guide/intor is normalized to /guide/intor.mdx, fails the lookup and is
\* recorded with suggestion /guide/intro.mdx and confidence high.
C8_SuggestionWithExtension ==
  all_files = FourStyles(P_INTRO) =>
    /\ \A v \in Range(validated) : v.url = U_INTOR => ~ v.result.valid
    /\ \A b \in Range(broken_links) :
         b.link.url = U_INTOR =>
           /\ b.validation.target = T_INTOR_MDX
           /\ b.validation.suggestion = Some(S_INTRO_MDX)
           /\ b.confidence = "high"

C8_Witness ==
  /\ all_files = FourStyles(P_INTRO)
  /\ \E b \in Range(broken_links) : b.link.url = U_INTOR

\* the entries the scan has passed: those of the earlier patterns and the
\* first fidx of the current one
RECURSIVE Passed(_)
Passed(k) ==
  IF k = 0 THEN <<>> ELSE Passed(k - 1) \o glob(tree, patterns[k])

\* C9: after every step of process_all_files no extracted link is dropped
\* and each is labeled once: the extracted links are links_found followed by
\* those of the current file still to go, len(links_found) is the number of
\* internal links plus len(external_links), broken_links holds only internal
\* links of links_found, and the summary of the report adds up.
C9_NoLinkDropped ==
  /\ links_found \o pending
       = ReadableLinks(Passed(pat - 1) \o SubSeq(current_glob, 1, fidx))
  /\ Len(links_found)
       = Len(InternalOnes(links_found)) + Len(external_links)
  /\ \A b \in Range(broken_links) :
       b.link \in Range(InternalOnes(links_found))
  /\ Len(broken_links) <= Len(InternalOnes(links_found))
  /\ report # None =>
       /\ report[1].all_links = links_found
       /\ report[1].summary.total_links_found = Len(links_found)
       /\ report[1].summary.total_links_found
            = report[1].summary.internal_links
              + report[1].summary.external_links
       /\ report[1].summary.broken_internal_links
            <= report[1].summary.internal_links

C9_Witness ==
  /\ report # None
  /\ report[1].summary.external_links > 0
  /\ report[1].summary.broken_internal_links > 0
  /\ report[1].summary.broken_internal_links
       < report[1].summary.internal_links

C10_IndexOfSnapshot ==
  \A x \in all_files : \E e \in DocFiles : x \in FourStyles(e.path)

\* C10: all_files is built in the constructor and no later operation changes
\* it; each of its elements is one of the four path variants of a .md or
\* .mdx file of the tree.
C10_IndexImmutable ==
  /\ [][all_files' = all_files]_vars
  /\ [] C10_IndexOfSnapshot

C10_Witness ==
  /\ run > 1
  /\ pc = "done"
  /\ validated # <<>>
  /\ P_INTRO \in all_files

====
